---- MODULE Spec2Model ----
(***************************************************************************)
(* A model of the FM synthesis engine of fm.py: envelope, Operator,        *)
(* OperatorChain, Synth and addsyn.                                        *)
(*                                                                         *)
(* Samples are exact rationals <<n, d>> (d > 0, lowest terms) or one of    *)
(* the IEEE specials nan, inf, -inf that numpy's division by zero yields.  *)
(* Buffers are sequences of samples of length Size(T).  The sample rate is *)
(* scaled down so that a buffer has a handful of samples.                  *)
(***************************************************************************)
EXTENDS Integers, Sequences, FiniteSets

VARIABLES
    patch,                      \* Synth.patch
    chains,                     \* Synth.chains: sequence of OperatorChain records
    output,                     \* Synth.output (mixed, before the envelope)
    output_envelope,            \* Synth._output_envelope
    prev_output_env_parameters, \* Synth._prev_output_env_parameters
    output_with_envelope,       \* Synth._output_with_envelope
    call,                       \* the call that produced this state and how it ended
    hist,                       \* what earlier calls did (see Record, Remember)
    fn                          \* a pure function under test: its input and result

vars == <<patch, chains, output, output_envelope, prev_output_env_parameters,
          output_with_envelope, call, hist, fn>>

----------------------------------------------------------------------------
\* Bounds of the model
FS == 4          \* samples per second (44100 in fm.py, scaled down)
DurDen == 8      \* envelope durations are multiples of 1/DurDen seconds
MaxDurNum == 5   \* longest envelope segment, in 1/DurDen seconds
MaxSample == 2   \* addsyn inputs range over -MaxSample..MaxSample

\* Program constants
SECONDS == 1
NOTE == 440

----------------------------------------------------------------------------
\* Exact rational arithmetic (the float arithmetic of numpy, without rounding)

Abs(x) == IF x < 0 THEN -x ELSE x

Maximum(a, b) == IF a >= b THEN a ELSE b

RECURSIVE GCD(_, _)
GCD(a, b) == IF b = 0 THEN a ELSE GCD(b, a % b)

\* n/d in lowest terms with a positive denominator (d # 0)
Rat(n, d) ==
    LET g == GCD(Abs(n), Abs(d))
        s == IF d < 0 THEN -1 ELSE 1
    IN  <<(s * n) \div g, (s * d) \div g>>

Zero == <<0, 1>>
One == <<1, 1>>
\* the IEEE specials, written as fractions with a zero denominator
NaN == <<0, 0>>
Inf == <<1, 0>>
NegInf == <<-1, 0>>
IsSpecial(x) == x[2] = 0
RAdd(x, y) == Rat(x[1] * y[2] + y[1] * x[2], x[2] * y[2])
RSub(x, y) == Rat(x[1] * y[2] - y[1] * x[2], x[2] * y[2])
RMul(x, y) == Rat(x[1] * y[1], x[2] * y[2])
RLess(x, y) == x[1] * y[2] < y[1] * x[2]
RAbs(x) == <<Abs(x[1]), x[2]>>
RFloor(x) == x[1] \div x[2]
RCeil(x) == -((-x[1]) \div x[2])
FromInt(i) == <<i, 1>>
Sign(i) == IF i > 0 THEN 1 ELSE IF i < 0 THEN -1 ELSE 0

\* float multiplication: nan is absorbing, inf * 0 is nan
FMul(x, y) ==
    IF IsSpecial(x) \/ IsSpecial(y)
    THEN <<Sign(x[1]) * Sign(y[1]), 0>>
    ELSE RMul(x, y)

\* float division of finite values: x/0 is inf, -inf or nan (numpy warns and
\* does not raise)
FDiv(x, y) ==
    IF y[1] = 0 THEN <<Sign(x[1]), 0>>
    ELSE Rat(x[1] * y[2], x[2] * y[1])

----------------------------------------------------------------------------
\* numpy helpers

\* np.size(T): T = np.linspace(0, SECONDS, math.ceil(FS*SECONDS))
SizeT == FS * SECONDS

\* T[t], t = 1..SizeT (np.linspace(0, SECONDS, SizeT))
T(t) == IF SizeT = 1 THEN Zero ELSE Rat((t - 1) * SECONDS, SizeT - 1)

\* a numpy array: a function on 1..n as a sequence, its elements evaluated once
array(f) == f \o <<>>

ones(n) == array([i \in 1..n |-> One])
zeros(n) == array([i \in 1..n |-> Zero])

\* np.linspace(start, stop, num) for num >= 0
linspace(start, stop, num) ==
    array([i \in 1..num |->
        IF num = 1 THEN start
        ELSE RAdd(start, RMul(Rat(i - 1, num - 1), RSub(stop, start)))])

\* np.resize(a, n): a repeated cyclically and cut to n elements (a not empty)
resize(a, n) == array([i \in 1..n |-> a[((i - 1) % Len(a)) + 1]])

\* np.multiply(a, b), elementwise
multiply(a, b) == array([i \in 1..Len(a) |-> FMul(a[i], b[i])])

----------------------------------------------------------------------------
\* envelope(a, d, s_len, s_level, r): the result is [err, buf]; err is the
\* exception raised ("none" when the call returns buf)

Raised(e) == [err |-> e, buf |-> <<>>]
Returned(b) == [err |-> "none", buf |-> b]

\* the body of envelope after the check of s_level: the four segments, then
\* the fit to np.size(T)
adsr_envelope(a, d, s_len, s_level, r) ==
    LET a_end == RCeil(RMul(a, FromInt(FS)))
        a_int == linspace(Zero, One, a_end)
        d_end == RCeil(RMul(d, FromInt(FS)))
        d_lin == linspace(Zero, RSub(One, s_level), d_end)
        d_int == array([i \in 1..d_end |-> RSub(One, d_lin[i])])
        s_end == RCeil(RMul(s_len, FromInt(FS)))
        s_int == array([i \in 1..s_end |-> RMul(s_level, One)])
        r_end == RCeil(RMul(r, FromInt(FS)))
        r_lin == linspace(One, Zero, r_end)
        r_int == array([i \in 1..r_end |-> RMul(s_level, r_lin[i])])
        fit(adsr) ==
            IF RLess(FromInt(SECONDS), RAdd(RAdd(a, d), RAdd(s_len, r)))
            THEN Returned(resize(adsr, SizeT))
            ELSE IF SizeT - Len(adsr) < 0
                 THEN Raised("ValueError")   \* np.zeros of a negative size
                 ELSE Returned(adsr \o zeros(SizeT - Len(adsr)))
    IN  fit(a_int \o d_int \o s_int \o r_int)

\* a bug for envelope: s_level clamped into [0, 1] instead of rejected
envelope_clamped(a, d, s_len, s_level, r) ==
    adsr_envelope(a, d, s_len,
                  IF RLess(One, s_level) THEN One
                  ELSE IF RLess(s_level, Zero) THEN Zero ELSE s_level,
                  r)

envelope(a, d, s_len, s_level, r) ==
    IF RLess(One, s_level) \/ RLess(s_level, Zero) THEN Raised("ValueError")
    ELSE adsr_envelope(a, d, s_len, s_level, r)

\* envelope(*env)
envelope_of(env) == envelope(env[1], env[2], env[3], env[4], env[5])

----------------------------------------------------------------------------
\* Operator

\* np.sin, with angles counted in quarter turns (pi/2): the piecewise-linear
\* interpolant of sin through its values at the multiples of pi/2, which keeps
\* samples rational.  sin(0) = 0, odd, periodic, within [-1, 1].
sin(p) ==
    LET q == RSub(p, FromInt(4 * RFloor(Rat(p[1], p[2] * 4))))
    IN  IF ~RLess(One, q) THEN q
        ELSE IF ~RLess(FromInt(3), q) THEN RSub(FromInt(2), q)
        ELSE RSub(q, FromInt(4))

\* 2*np.pi*freq*T[t], in quarter turns
phase(freq, t) == RMul(FromInt(4), RMul(freq, T(t)))

\* np.multiply(env, np.sin(2*np.pi*freq*T + mod_idx*fb_mod)); mod_idx counts
\* in units of pi/2
fm_step(op, fb_mod) ==
    multiply(op.env,
             array([t \in 1..SizeT |->
                 sin(RAdd(phase(op.freq, t), RMul(op.mod_idx, fb_mod[t])))]))

RECURSIVE feed_back(_, _, _)
feed_back(op, fb_mod, k) ==
    IF k <= 0 THEN fb_mod ELSE feed_back(op, fm_step(op, fb_mod), k - 1)

\* a bug for update_out: the update after the feedback loop is left out
update_out_loop_only(op) ==
    [op EXCEPT !.out = feed_back(op, op.mod, op.fb)]

\* Operator._update_out: the operator with its output computed
update_out(op) == [op EXCEPT !.out = fm_step(op, feed_back(op, op.mod, op.fb))]

\* the envelope buffer of an envelope parameter (a list of five, or empty)
env_buffer(value) ==
    IF Len(value) > 0 THEN envelope_of(value) ELSE Returned(ones(SizeT))

\* Operator.__init__: [err, op]
Operator(freq, mod_idx, env, fb, mod) ==
    LET new(ev) ==
            [err |-> ev.err,
             op |-> [freq |-> RMul(freq, FromInt(NOTE)), mod_idx |-> mod_idx,
                     env |-> ev.buf, fb |-> fb, mod |-> mod, out |-> <<>>]]
    IN  new(env_buffer(env))

\* op.freq, op.mod_idx, op.env, op.fb = freq, mi, env, fb: the four setters
\* run in this order, and the env setter raises on an invalid envelope
assign_params(op, freq, mod_idx, env, fb) ==
    LET two == [op EXCEPT !.freq = RMul(freq, FromInt(NOTE)),
                          !.mod_idx = mod_idx]
        rest(ev) ==
            IF ev.err # "none" THEN [err |-> ev.err, op |-> two]
            ELSE [err |-> "none", op |-> [two EXCEPT !.env = ev.buf, !.fb = fb]]
    IN  rest(env_buffer(env))

----------------------------------------------------------------------------
\* OperatorChain.  Operators are numbered from 1 (index 0 of the code is 1).

Min(a, b) == IF a <= b THEN a ELSE b
Take(s, k) == SubSeq(s, 1, Min(k, Len(s)))
Drop(s, k) == SubSeq(s, Min(k, Len(s)) + 1, Len(s))

\* a scalar modulating input (patch["mod_0"] holds numbers) as numpy broadcasts it
broadcast(x) == array([t \in 1..SizeT |-> x])

NoChain == [n_ops |-> 0, freqs |-> <<>>, mod_indices |-> <<>>, envs |-> <<>>,
            feedback |-> <<>>, mod_0 |-> Zero, output |-> <<>>,
            operators |-> <<>>]

\* the loop of OperatorChain.__init__ from operator i on, then self.output
\* (curr_op is operator i-1 with its output computed; made is the new operator)
RECURSIVE build_operators(_, _, _, _)
build_operators(ch, operators, i, computed) ==
    LET finish(last) ==
            [err |-> "none",
             chain |-> [ch EXCEPT !.output = last.out,
                                  !.operators = [operators EXCEPT ![i - 1] = last]],
             computed |-> Append(computed, i - 1)]
        add(curr_op, made) ==
            IF made.err # "none"
            THEN [err |-> made.err, chain |-> NoChain, computed |-> computed]
            ELSE build_operators(
                    ch,
                    Append([operators EXCEPT ![i - 1] = curr_op], made.op),
                    i + 1,
                    Append(computed, i - 1))
        make(curr_op) ==
            add(curr_op, Operator(ch.freqs[i], ch.mod_indices[i], ch.envs[i],
                                  ch.feedback[i], curr_op.out))
    IN  IF i > ch.n_ops THEN finish(update_out(operators[i - 1]))
        ELSE make(update_out(operators[i - 1]))

\* OperatorChain.__init__(n_ops, mod_0, op_params): [err, chain, computed]
OperatorChain(n_ops, mod_0, op_params) ==
    LET ch == [NoChain EXCEPT !.n_ops = n_ops, !.freqs = op_params[1],
                              !.mod_indices = op_params[2],
                              !.envs = op_params[3],
                              !.feedback = op_params[4], !.mod_0 = mod_0]
        build(first) ==
            IF first.err # "none"
            THEN [err |-> first.err, chain |-> NoChain, computed |-> <<>>]
            ELSE build_operators(ch, <<first.op>>, 2, <<>>)
    IN  IF n_ops = 0 \/ \E k \in 1..Len(op_params) : Len(op_params[k]) # n_ops
        THEN [err |-> "ValueError", chain |-> NoChain, computed |-> <<>>]
        ELSE build(Operator(ch.freqs[1], ch.mod_indices[1], ch.envs[1],
                            ch.feedback[1], broadcast(mod_0)))

\* the zip loop of OperatorChain._update_output from operator j on (curr_op is
\* operator j-1), then self.output = curr_op.out
RECURSIVE rewire(_, _, _, _)
rewire(ch, j, lim, computed) ==
    LET finish(last) ==
            [err |-> "none",
             chain |-> [ch EXCEPT !.output = last.out,
                                  !.operators[j - 1] = last],
             computed |-> Append(computed, j - 1)]
        wire(set, curr_op) ==
            rewire([ch EXCEPT !.operators[j - 1] = curr_op,
                              !.operators[j] = [set.op EXCEPT !.mod = curr_op.out]],
                   j + 1, lim, Append(computed, j - 1))
        step(set) ==
            IF set.err # "none"
            THEN [err |-> set.err,
                  chain |-> [ch EXCEPT !.operators[j] = set.op],
                  computed |-> computed]
            ELSE wire(set, update_out(ch.operators[j - 1]))
    IN  IF j > lim THEN finish(update_out(ch.operators[j - 1]))
        ELSE step(assign_params(ch.operators[j], ch.freqs[j], ch.mod_indices[j],
                                ch.envs[j], ch.feedback[j]))

\* a bug for zip_limit: the walk stops one operator short of the end
zip_limit_one_short(ch) == Len(ch.operators) - 1

\* the operators _update_output can reach: zip stops at the shortest list
zip_limit(ch) ==
    Min(Len(ch.operators),
        Min(Min(Len(ch.freqs), Len(ch.mod_indices)),
            Min(Len(ch.envs), Len(ch.feedback))))

\* OperatorChain._update_output(idx): [err, chain, computed]
update_output(ch, idx) ==
    LET first(set) ==
            IF set.err # "none"
            THEN [err |-> set.err,
                  chain |-> [ch EXCEPT !.operators[idx] = set.op],
                  computed |-> <<>>]
            ELSE rewire([ch EXCEPT !.operators[idx] = set.op], idx + 1,
                        zip_limit(ch), <<>>)
    IN  IF idx > zip_limit(ch)
        THEN [err |-> "IndexError", chain |-> ch, computed |-> <<>>]
        ELSE first(assign_params(ch.operators[idx], ch.freqs[idx],
                                 ch.mod_indices[idx], ch.envs[idx],
                                 ch.feedback[idx]))

\* the i-th parameter tuple of four lists; "IndexError" past the end of any
param_tuple(freqs, mod_indices, envs, feedback, i) ==
    IF i > Min(Min(Len(freqs), Len(mod_indices)), Min(Len(envs), Len(feedback)))
    THEN <<"IndexError">>
    ELSE <<freqs[i], mod_indices[i], envs[i], feedback[i]>>

\* a bug for find_start: only the frequencies are compared
find_start_freqs_only(ch, op_params) ==
    LET hits == {i \in 1..(ch.n_ops - 1) : op_params[1][i] # ch.freqs[i]}
    IN  IF hits = {} THEN ch.n_ops
        ELSE CHOOSE i \in hits : \A k \in hits : i <= k

\* a bug for find_start: the scan covers the last operator too, so a call
\* that changes nothing finds no operator to start from
find_start_scans_all(ch, op_params) ==
    LET hits == {i \in 1..ch.n_ops :
                    param_tuple(op_params[1], op_params[2], op_params[3],
                                op_params[4], i)
                    # param_tuple(ch.freqs, ch.mod_indices, ch.envs,
                                   ch.feedback, i)}
    IN  IF hits = {} THEN ch.n_ops + 1
        ELSE CHOOSE i \in hits : \A k \in hits : i <= k

\* a bug for find_start: every call recomputes the whole chain
find_start_first(ch, op_params) == 1

\* the scan of set_new_op_params: the first operator among 1..n_ops-1 whose
\* tuple cannot be read or differs from the stored one; n_ops when there is none
find_start(ch, op_params) ==
    LET hit(i) ==
            LET new == param_tuple(op_params[1], op_params[2], op_params[3],
                                   op_params[4], i)
                old == param_tuple(ch.freqs, ch.mod_indices, ch.envs,
                                   ch.feedback, i)
            IN  Len(new) = 1 \/ Len(old) = 1 \/ new # old
        hits == {i \in 1..(ch.n_ops - 1) : hit(i)}
    IN  IF hits = {} THEN ch.n_ops
        ELSE CHOOSE i \in hits : \A k \in hits : i <= k

\* OperatorChain.set_new_op_params(op_params): [err, chain, computed, start]
set_new_op_params(ch, op_params) ==
    LET unreadable(start_idx) ==
            start_idx < ch.n_ops /\
            (Len(param_tuple(op_params[1], op_params[2], op_params[3],
                             op_params[4], start_idx)) = 1
             \/ Len(param_tuple(ch.freqs, ch.mod_indices, ch.envs,
                                ch.feedback, start_idx)) = 1)
        stored(start_idx) == [ch EXCEPT
            !.freqs = Take(ch.freqs, start_idx - 1) \o Drop(op_params[1], start_idx - 1),
            !.mod_indices =
                Take(ch.mod_indices, start_idx - 1) \o Drop(op_params[2], start_idx - 1),
            !.envs = Take(ch.envs, start_idx - 1) \o Drop(op_params[3], start_idx - 1),
            !.feedback =
                Take(ch.feedback, start_idx - 1) \o Drop(op_params[4], start_idx - 1)]
        result(start_idx, done) ==
            [err |-> done.err, chain |-> done.chain,
             computed |-> done.computed, start |-> start_idx]
        from(start_idx) ==
            IF unreadable(start_idx)
            THEN [err |-> "IndexError", chain |-> ch, computed |-> <<>>,
                  start |-> start_idx]
            ELSE result(start_idx, update_output(stored(start_idx), start_idx))
    IN  from(find_start(ch, op_params))

----------------------------------------------------------------------------
\* addsyn(waves): out = np.sum(waves, 0); out = out/np.max(out)

RECURSIVE sum_at(_, _, _)
sum_at(waves, t, k) ==
    IF k = 0 THEN Zero ELSE RAdd(sum_at(waves, t, k - 1), waves[k][t])

\* np.sum(waves, 0): the elementwise sum
np_sum(waves) ==
    array([t \in 1..Len(waves[1]) |-> sum_at(waves, t, Len(waves))])

\* np.max(out): the largest sample (signed)
np_max(out) == CHOOSE m \in {out[t] : t \in 1..Len(out)} :
                   \A t \in 1..Len(out) : ~RLess(m, out[t])

addsyn(waves) ==
    LET out == np_sum(waves)
        m == np_max(out)
    IN  array([t \in 1..Len(out) |-> FDiv(out[t], m)])

----------------------------------------------------------------------------
\* Synth

chain_outputs(chs) == array([c \in 1..Len(chs) |-> chs[c].output])

\* default_patch["output_env"] = [0.0125, 0.025, 0.15, 0.7, 0.05]
default_output_env == <<Rat(1, 80), Rat(1, 40), Rat(3, 20), Rat(7, 10), Rat(1, 20)>>

\* the number of chains Synth.__init__ zips over
n_chains(p) ==
    Min(Min(Len(p.algorithm), Len(p.freqs)),
        Min(Min(Len(p.mod_indices), Len(p.envs)),
            Min(Len(p.mod_0), Len(p.feedback))))

\* the chains of Synth.__init__, built in order: [err, chains]
\* a chain as Synth.__init__ builds it: its freqs, mod_indices, envs and
\* feedback are the patch's own lists (shares_patch)
shared(ch) ==
    [f \in DOMAIN ch \cup {"shares_patch"} |->
        IF f = "shares_patch" THEN TRUE ELSE ch[f]]

RECURSIVE build_chains(_, _, _)
build_chains(p, c, chs) ==
    LET add(made) ==
            IF made.err # "none" THEN [err |-> made.err, chains |-> <<>>]
            ELSE build_chains(p, c + 1, Append(chs, shared(made.chain)))
    IN  IF c > n_chains(p) THEN [err |-> "none", chains |-> chs]
        ELSE add(OperatorChain(p.algorithm[c], p.mod_0[c],
                               <<p.freqs[c], p.mod_indices[c], p.envs[c],
                                 p.feedback[c]>>))

\* Synth.__init__(patch): the state of the new engine, or the exception
Synth(p) ==
    LET new(built, mixed, env) ==
            IF env.err # "none" THEN [err |-> env.err]
            ELSE [err |-> "none",
                  patch |-> p,
                  chains |-> built.chains,
                  output |-> mixed,
                  output_envelope |-> env.buf,
                  prev_output_env_parameters |->
                      IF Len(p.output_env) > 0 THEN p.output_env
                      ELSE default_output_env,
                  output_with_envelope |-> multiply(mixed, env.buf)]
        mix(built) ==
            IF built.err # "none" THEN [err |-> built.err]
            ELSE new(built, addsyn(chain_outputs(built.chains)),
                     env_buffer(p.output_env))
    IN  mix(build_chains(p, 1, <<>>))

\* the engine's fields as one record
Engine == [patch |-> patch, chains |-> chains, output |-> output,
           output_envelope |-> output_envelope,
           prev_output_env_parameters |-> prev_output_env_parameters,
           output_with_envelope |-> output_with_envelope]

\* a bug for synth_update_output: the enveloped output is not refreshed
synth_update_output_mix_only(S) ==
    [S EXCEPT !.output = addsyn(chain_outputs(S.chains))]

\* Synth._update_output
synth_update_output(S) ==
    LET store(mixed) ==
            [S EXCEPT !.output = mixed,
                      !.output_with_envelope = multiply(mixed, S.output_envelope)]
    IN  store(addsyn(chain_outputs(S.chains)))

\* a bug for update_output_envelope: disabling forgets the remembered
\* parameters (they go back to the default patch's)
update_output_envelope_forgets(S) ==
    IF Len(S.patch.output_env) > 0 THEN
        [err |-> envelope_of(S.patch.output_env).err,
         S |-> IF envelope_of(S.patch.output_env).err # "none" THEN S
               ELSE [S EXCEPT
                   !.output_envelope = envelope_of(S.patch.output_env).buf,
                   !.prev_output_env_parameters = S.patch.output_env,
                   !.output_with_envelope =
                       multiply(envelope_of(S.patch.output_env).buf, S.output)]]
    ELSE [err |-> "none",
          S |-> [S EXCEPT
              !.output_envelope = ones(SizeT),
              !.prev_output_env_parameters = default_output_env,
              !.output_with_envelope = multiply(ones(SizeT), S.output)]]

\* a bug for update_output_envelope: enabling does not remember the
\* parameters
update_output_envelope_keeps_prev(S) ==
    IF Len(S.patch.output_env) > 0 THEN
        [err |-> envelope_of(S.patch.output_env).err,
         S |-> IF envelope_of(S.patch.output_env).err # "none" THEN S
               ELSE [S EXCEPT
                   !.output_envelope = envelope_of(S.patch.output_env).buf,
                   !.output_with_envelope =
                       multiply(envelope_of(S.patch.output_env).buf, S.output)]]
    ELSE [err |-> "none",
          S |-> [S EXCEPT
              !.output_envelope = ones(SizeT),
              !.output_with_envelope = multiply(ones(SizeT), S.output)]]

\* Synth._update_output_envelope: [err, S]
update_output_envelope(S) ==
    IF Len(S.patch.output_env) > 0 THEN
        LET store(env) ==
                IF env.err # "none" THEN [err |-> env.err, S |-> S]
                ELSE [err |-> "none",
                      S |-> [S EXCEPT
                          !.output_envelope = env.buf,
                          !.prev_output_env_parameters = S.patch.output_env,
                          !.output_with_envelope = multiply(env.buf, S.output)]]
        IN  store(envelope_of(S.patch.output_env))
    ELSE [err |-> "none",
          S |-> [S EXCEPT
              !.output_envelope = ones(SizeT),
              !.output_with_envelope = multiply(ones(SizeT), S.output)]]

\* the engine once set_new_op_params has run on a chain: the chain's lists
\* are changed in place by the slice assignments, and a chain built by
\* Synth.__init__ holds the patch's own list objects until the patch entries
\* are rebound
chain_called(S, r, chain_idx) ==
    IF S.chains[chain_idx].shares_patch
    THEN [S EXCEPT !.chains[chain_idx] = r.chain,
                   !.patch.freqs[chain_idx] = r.chain.freqs,
                   !.patch.mod_indices[chain_idx] = r.chain.mod_indices,
                   !.patch.envs[chain_idx] = r.chain.envs,
                   !.patch.feedback[chain_idx] = r.chain.feedback]
    ELSE [S EXCEPT !.chains[chain_idx] = r.chain]

\* a bug for patch_rebound: "envs" is missing from param_names
patch_rebound_without_envs(S, op_params, chain_idx) ==
    [S EXCEPT !.patch.freqs[chain_idx] = op_params[1],
              !.patch.mod_indices[chain_idx] = op_params[2],
              !.patch.feedback[chain_idx] = op_params[4],
              !.chains[chain_idx].shares_patch = FALSE]

\* a bug for patch_rebound: the entries of the first chain are written,
\* whichever chain was called
patch_rebound_first_chain(S, op_params, chain_idx) ==
    [S EXCEPT !.patch.freqs[1] = op_params[1],
              !.patch.mod_indices[1] = op_params[2],
              !.patch.envs[1] = op_params[3],
              !.patch.feedback[1] = op_params[4],
              !.chains[chain_idx].shares_patch = FALSE]

\* the loop over param_names of set_chain_params: the patch entries become
\* the caller's lists
patch_rebound(S, op_params, chain_idx) ==
    [S EXCEPT !.patch.freqs[chain_idx] = op_params[1],
              !.patch.mod_indices[chain_idx] = op_params[2],
              !.patch.envs[chain_idx] = op_params[3],
              !.patch.feedback[chain_idx] = op_params[4],
              !.chains[chain_idx].shares_patch = FALSE]

\* a bug for set_chain_params: the mix is not recomputed
set_chain_params_no_mix(S, op_params, chain_idx) ==
    LET after(r) ==
            [err |-> r.err,
             S |-> IF r.err # "none" THEN chain_called(S, r, chain_idx)
                   ELSE patch_rebound(chain_called(S, r, chain_idx),
                                      op_params, chain_idx),
             computed |-> r.computed, start |-> r.start]
    IN  after(set_new_op_params(S.chains[chain_idx], op_params))

\* Synth.set_chain_params(op_params, chain_idx): [err, S, computed, start]
set_chain_params(S, op_params, chain_idx) ==
    LET after(r) ==
            [err |-> r.err,
             S |-> IF r.err # "none" THEN chain_called(S, r, chain_idx)
                   ELSE synth_update_output(
                            patch_rebound(chain_called(S, r, chain_idx),
                                          op_params, chain_idx)),
             computed |-> r.computed, start |-> r.start]
    IN  after(set_new_op_params(S.chains[chain_idx], op_params))

\* Synth.set_output_envelope(vals): [err, S]
set_output_envelope(S, vals) ==
    update_output_envelope([S EXCEPT !.patch.output_env = vals])

\* a bug for set_output_envelope_to_prev: the default patch's envelope is
\* enabled, not the remembered one
set_output_envelope_to_default(S) ==
    update_output_envelope([S EXCEPT !.patch.output_env = default_output_env])

\* Synth.set_output_envelope_to_prev(): [err, S]
set_output_envelope_to_prev(S) ==
    update_output_envelope(
        [S EXCEPT !.patch.output_env = S.prev_output_env_parameters])

\* Synth.has_output_envelope
has_output_envelope(S) == Len(S.patch.output_env) > 0

\* Synth.get_envelope_patch_param
get_envelope_patch_param(S) ==
    IF Len(S.patch.output_env) > 0 THEN S.patch.output_env
    ELSE S.prev_output_env_parameters

----------------------------------------------------------------------------
\* reshape_list and new_patch_algorithm

\* sum(algorithm)
RECURSIVE sum(_)
sum(algorithm) ==
    IF Len(algorithm) = 0 THEN 0
    ELSE algorithm[1] + sum(Drop(algorithm, 1))

\* a Python list holding items (vals_mbr = [] and its appends)
list(items) == [kind |-> "list", items |-> items]

\* reshape_list as the tests of test_fm.py expect it: a group taken for an
\* algorithm entry of 1 is the bare value
bare_or_list(items) ==
    IF Len(items) = 1 THEN [kind |-> "value", items |-> items] ELSE list(items)

\* the loop of reshape_list, from entry k of algorithm on; vals_idx counts
\* from 0 as in the code
RECURSIVE reshape_loop(_, _, _, _, _)
reshape_loop(vals, algorithm, k, vals_idx, new_vals) ==
    IF k > Len(algorithm) THEN new_vals
    ELSE reshape_loop(vals, algorithm, k + 1, vals_idx + algorithm[k],
             Append(new_vals,
                    list(array([j \in 1..algorithm[k] |-> vals[vals_idx + j]]))))

\* a bug for reshape_list: vals_idx starts again at 0 for every group
reshape_list_restarting(vals, algorithm) ==
    IF Len(vals) # sum(algorithm) THEN [err |-> "ValueError", val |-> <<>>]
    ELSE [err |-> "none",
          val |-> array([k \in 1..Len(algorithm) |->
                     list(array([j \in 1..algorithm[k] |-> vals[j]]))])]

\* a bug for reshape_list: only a vals that is too short is rejected
reshape_list_short_only(vals, algorithm) ==
    IF Len(vals) < sum(algorithm) THEN [err |-> "ValueError", val |-> <<>>]
    ELSE [err |-> "none", val |-> reshape_loop(vals, algorithm, 1, 0, <<>>)]

\* a bug for reshape_list: a group of one value is unwrapped
reshape_list_unwrapping(vals, algorithm) ==
    IF Len(vals) # sum(algorithm) THEN [err |-> "ValueError", val |-> <<>>]
    ELSE [err |-> "none",
          val |-> array([k \in 1..Len(algorithm) |->
                     bare_or_list(
                         reshape_loop(vals, algorithm, 1, 0, <<>>)[k].items)])]

\* reshape_list(vals, algorithm): [err, val], val a sequence of lists
reshape_list(vals, algorithm) ==
    IF Len(vals) # sum(algorithm) THEN [err |-> "ValueError", val |-> <<>>]
    ELSE [err |-> "none", val |-> reshape_loop(vals, algorithm, 1, 0, <<>>)]

\* [x]*n
repeat(x, n) == array([i \in 1..n |-> x])

\* the nested Python list reshape_list returned, as the sequences of
\* sequences the patch holds
nested(reshaped) == array([k \in 1..Len(reshaped.val) |-> reshaped.val[k].items])

\* a bug for new_patch_algorithm: mod_0 gets one seed per operator
new_patch_algorithm_seed_per_op(algorithm) ==
    [freqs |-> nested(reshape_list(repeat(One, sum(algorithm)), algorithm)),
     mod_indices |-> nested(reshape_list(repeat(One, sum(algorithm)), algorithm)),
     envs |-> nested(reshape_list(repeat(<<>>, sum(algorithm)), algorithm)),
     output_env |-> <<>>,
     mod_0 |-> repeat(Zero, sum(algorithm)),
     algorithm |-> algorithm,
     feedback |-> nested(reshape_list(repeat(0, sum(algorithm)), algorithm))]

\* new_patch_algorithm(algorithm)
new_patch_algorithm(algorithm) ==
    [freqs |-> nested(reshape_list(repeat(One, sum(algorithm)), algorithm)),
     mod_indices |-> nested(reshape_list(repeat(One, sum(algorithm)), algorithm)),
     envs |-> nested(reshape_list(repeat(<<>>, sum(algorithm)), algorithm)),
     output_env |-> <<>>,
     mod_0 |-> repeat(Zero, Len(algorithm)),
     algorithm |-> algorithm,
     feedback |-> nested(reshape_list(repeat(0, sum(algorithm)), algorithm))]

----------------------------------------------------------------------------
\* The inputs the model draws

Hz(n) == Rat(n, NOTE)          \* the frequency multiplier that gives n Hz
\* envelope parameter lists (a, d, s_len, s_level, r); EnvBad's s_level is
\* out of range
EnvA == <<Rat(1, 10), Rat(1, 10), Rat(1, 5), Rat(1, 2), Rat(1, 5)>>
EnvB == <<Rat(1, 5), Rat(1, 10), Rat(1, 10), One, Rat(1, 10)>>
EnvBad == <<Rat(1, 10), Rat(1, 10), Rat(1, 10), Rat(3, 2), Rat(1, 10)>>

\* (freqs, mod_indices, envs, feedbacks) from a sequence of operator tuples
\* (freq, mod_index, env, feedback)
op_params_of(ops) == << array([i \in 1..Len(ops) |-> ops[i][1]]),
                        array([i \in 1..Len(ops) |-> ops[i][2]]),
                        array([i \in 1..Len(ops) |-> ops[i][3]]),
                        array([i \in 1..Len(ops) |-> ops[i][4]]) >>

\* the engine of Spec: two chains, of two operators and of one
Algorithm == <<2, 1>>

\* one operator's (freq, mod_index, env, feedback); the last has an invalid
\* envelope
OpChoices == { <<Hz(1), One, <<>>, 0>>,
               <<Hz(0), One, EnvA, 0>>,
               <<Hz(1), One, EnvBad, 0>> }

ValidOpChoices == {o \in OpChoices : env_buffer(o[3]).err = "none"}

\* the arguments of set_chain_params on chain c: invalid envelopes are passed
\* to the first chain only
ChainArgs(c) ==
    {op_params_of(ops) :
        ops \in [1..Algorithm[c] -> IF c = 1 THEN OpChoices ELSE ValidOpChoices]}

OutputEnvChoices == {<<>>, EnvA, EnvBad}

first_op == <<Hz(1), One, <<>>, 0>>

InitPatches ==
    { [freqs |-> [c \in 1..Len(Algorithm) |-> [i \in 1..Algorithm[c] |-> first_op[1]]],
       mod_indices |-> [c \in 1..Len(Algorithm) |-> [i \in 1..Algorithm[c] |-> first_op[2]]],
       envs |-> [c \in 1..Len(Algorithm) |-> [i \in 1..Algorithm[c] |-> first_op[3]]],
       output_env |-> e,
       mod_0 |-> [c \in 1..Len(Algorithm) |-> Zero],
       algorithm |-> Algorithm,
       feedback |-> [c \in 1..Len(Algorithm) |-> [i \in 1..Algorithm[c] |-> first_op[4]]]]
      : e \in {<<>>, EnvA} }

----------------------------------------------------------------------------
\* Spec: the engine as a state machine, one action per public method of Synth

NoFn == [name |-> "none"]
NoRoundTrip == [stage |-> "none", p |-> <<>>]

\* the envelope is enabled with valid parameters p: the patch holds them and
\* the envelope buffer is their envelope
EnabledWith(S, p) ==
    /\ Len(p) > 0
    /\ S.patch.output_env = p
    /\ envelope_of(p).err = "none"
    /\ S.output_envelope = envelope_of(p).buf

\* hist: the disable / re-enable round trip under way.  stage is "disabled"
\* once an envelope enabled with hist.p was disabled, "disabled_again" when a
\* further disable followed, "restored" once set_output_envelope_to_prev
\* followed a disable.
Record(S, op) ==
    CASE op = "disable" ->
             IF EnabledWith(S, S.patch.output_env)
             THEN [stage |-> "disabled", p |-> S.patch.output_env]
             ELSE IF hist.stage \in {"disabled", "disabled_again"}
             THEN [hist EXCEPT !.stage = "disabled_again"]
             ELSE NoRoundTrip
      [] op = "to_prev" ->
             IF hist.stage \in {"disabled", "disabled_again"}
             THEN [hist EXCEPT !.stage = "restored"]
             ELSE NoRoundTrip
      [] op = "set_output_envelope" -> NoRoundTrip
      [] OTHER -> hist

\* hist.last: the parameters of the most recently enabled output envelope,
\* empty while none was enabled
Remember(h, last) == [stage |-> h.stage, p |-> h.p, last |-> last]

\* hist.last once an envelope setter that ended with err has left the engine S
Enabling(err, S) ==
    IF err = "none" /\ has_output_envelope(S) THEN S.patch.output_env
    ELSE hist.last

Install(S) ==
    /\ patch' = S.patch
    /\ chains' = S.chains
    /\ output' = S.output
    /\ output_envelope' = S.output_envelope
    /\ prev_output_env_parameters' = S.prev_output_env_parameters
    /\ output_with_envelope' = S.output_with_envelope

Init ==
    \E p \in InitPatches :
        \E S \in {Synth(p)} :
        /\ S.err = "none"
        /\ patch = S.patch
        /\ chains = S.chains
        /\ output = S.output
        /\ output_envelope = S.output_envelope
        /\ prev_output_env_parameters = S.prev_output_env_parameters
        /\ output_with_envelope = S.output_with_envelope
        /\ call = [op |-> "__init__", chain |-> 0, args |-> <<>>,
                   err |-> "none", start |-> 0, computed |-> <<>>]
        /\ hist = Remember(NoRoundTrip, S.patch.output_env)
        /\ fn = NoFn

SetChainParams(c, op_params) ==
    \E r \in {set_chain_params(Engine, op_params, c)} :
    /\ Install(r.S)
    /\ call' = [op |-> "set_chain_params", chain |-> c, args |-> op_params,
                err |-> r.err, start |-> r.start, computed |-> r.computed]
    /\ hist' = Record(Engine, "set_chain_params")
    /\ UNCHANGED fn

SetOutputEnvelope(vals) ==
    \E r \in {set_output_envelope(Engine, vals)} :
    /\ Install(r.S)
    /\ call' = [op |-> "set_output_envelope", chain |-> 0, args |-> vals,
                err |-> r.err, start |-> 0, computed |-> <<>>]
    /\ hist' = Remember(Record(Engine, IF Len(vals) = 0 THEN "disable"
                                       ELSE "set_output_envelope"),
                        Enabling(r.err, r.S))
    /\ UNCHANGED fn

SetOutputEnvelopeToPrev ==
    \E r \in {set_output_envelope_to_prev(Engine)} :
    /\ Install(r.S)
    /\ call' = [op |-> "set_output_envelope_to_prev", chain |-> 0, args |-> <<>>,
                err |-> r.err, start |-> 0, computed |-> <<>>]
    /\ hist' = Remember(Record(Engine, "to_prev"), Enabling(r.err, r.S))
    /\ UNCHANGED fn

Next ==
    \/ \E c \in 1..Len(Algorithm) : \E op_params \in ChainArgs(c) :
           SetChainParams(c, op_params)
    \/ \E vals \in OutputEnvChoices : SetOutputEnvelope(vals)
    \/ SetOutputEnvelopeToPrev

Spec == Init /\ [][Next]_vars

----------------------------------------------------------------------------
\* SpecChain: one OperatorChain of 1 to ChainLen operators and its
\* set_new_op_params, called with valid parameter lists of n_ops entries

ChainLen == 3

ChainOpChoices == { <<Hz(1), One, <<>>, 0>>,
                    <<Hz(1), One, <<>>, 1>>,
                    <<Hz(0), One, EnvA, 0>> }

\* the parameter lists a chain of n operators is given
ChainArgsOf(n) == {op_params_of(ops) : ops \in [1..n -> ChainOpChoices]}

ChainOnlyArgs == ChainArgsOf(ChainLen)

NoCall == [op |-> "none", chain |-> 0, args |-> <<>>, err |-> "none",
           start |-> 0, computed |-> <<>>]

\* the fields of a Synth, in the specifications that construct none
NoSynth ==
    /\ patch = <<>>
    /\ output = <<>>
    /\ output_envelope = <<>>
    /\ prev_output_env_parameters = <<>>
    /\ output_with_envelope = <<>>
    /\ hist = NoRoundTrip

InitChain ==
    \E n \in 1..ChainLen : \E op_params \in ChainArgsOf(n) :
        \E made \in {OperatorChain(n, Zero, op_params)} :
            /\ made.err = "none"
            /\ chains = <<made.chain>>
            /\ call = [NoCall EXCEPT !.op = "OperatorChain", !.chain = 1,
                                     !.args = op_params,
                                     !.computed = made.computed]
            /\ NoSynth
            /\ fn = NoFn

SetNewOpParams(op_params) ==
    \E r \in {set_new_op_params(chains[1], op_params)} :
        /\ chains' = <<r.chain>>
        /\ call' = [op |-> "set_new_op_params", chain |-> 1, args |-> op_params,
                    err |-> r.err, start |-> r.start, computed |-> r.computed]
        /\ UNCHANGED <<patch, output, output_envelope,
                       prev_output_env_parameters, output_with_envelope,
                       hist, fn>>

NextChain ==
    \E op_params \in ChainArgsOf(chains[1].n_ops) : SetNewOpParams(op_params)

SpecChain == InitChain /\ [][NextChain]_vars

----------------------------------------------------------------------------
\* SpecEnvelope: envelope as a pure function of its five arguments

Durations == {Rat(k, DurDen) : k \in 0..MaxDurNum}
SLevels == {Rat(-1, 2), Zero, Rat(1, 2), One, Rat(3, 2)}

InitEnvelope ==
    /\ \E a \in Durations, d \in Durations, s_len \in Durations,
          s_level \in SLevels, r \in Durations :
           fn = [name |-> "envelope", args |-> <<a, d, s_len, s_level, r>>,
                 done |-> FALSE, result |-> Raised("pending")]
    /\ chains = <<>>
    /\ call = NoCall
    /\ NoSynth

CallEnvelope ==
    /\ fn.name = "envelope"
    /\ ~fn.done
    /\ fn' = [fn EXCEPT !.done = TRUE, !.result = envelope_of(fn.args)]
    /\ UNCHANGED <<patch, chains, output, output_envelope,
                   prev_output_env_parameters, output_with_envelope, call, hist>>

SpecEnvelope == InitEnvelope /\ [][CallEnvelope]_vars

----------------------------------------------------------------------------
\* SpecAddsyn: addsyn as a pure function of a list of equal-length buffers

WaveLen == 2     \* samples per buffer
MaxWaves == 2    \* buffers in the list

Samples == {FromInt(k) : k \in (-MaxSample)..MaxSample}
Waves == UNION {[1..n -> [1..WaveLen -> Samples]] : n \in 1..MaxWaves}

InitAddsyn ==
    /\ \E waves \in Waves :
           fn = [name |-> "addsyn", args |-> waves, done |-> FALSE,
                 result |-> <<>>]
    /\ chains = <<>>
    /\ call = NoCall
    /\ NoSynth

CallAddsyn ==
    /\ fn.name = "addsyn"
    /\ ~fn.done
    /\ fn' = [fn EXCEPT !.done = TRUE, !.result = addsyn(fn.args)]
    /\ UNCHANGED <<patch, chains, output, output_envelope,
                   prev_output_env_parameters, output_with_envelope, call, hist>>

SpecAddsyn == InitAddsyn /\ [][CallAddsyn]_vars

----------------------------------------------------------------------------
\* SpecReshape: reshape_list as a pure function of vals and algorithm

MaxVals == 4      \* longest vals
MaxChains == 3    \* longest algorithm
MaxOps == 3       \* largest algorithm entry

Seqs(S, n) == UNION {[1..k -> S] : k \in 0..n}

Algorithms == Seqs(0..MaxOps, MaxChains)

\* the calls of TestReshapeList
TestReshapeInputs ==
    { <<<<1, 2, 3, 4, 5, 6>>, <<2, 2, 2>>>>,
      <<<<1, 2, 3, 4, 5, 6>>, <<3, 1, 2>>>>,
      <<<<1, 2, 3, 4, 5, 6>>, <<1, 1, 1, 1, 1, 1>>>>,
      <<<<1, 2>>, <<1, 1>>>>, <<<<1, 2>>, <<2>>>>, <<<<1>>, <<1>>>>,
      <<<<1, 2, 3, 4, 5>>, <<2, 2, 2>>>>,
      <<<<1, 2, 3, 4, 5, 6, 7>>, <<2, 2, 2>>>> }

ReshapeInputs == (Seqs(1..2, MaxVals) \X Algorithms) \cup TestReshapeInputs

InitReshape ==
    /\ \E in \in ReshapeInputs :
           fn = [name |-> "reshape_list", args |-> in, done |-> FALSE,
                 result |-> [err |-> "pending", val |-> <<>>]]
    /\ chains = <<>>
    /\ call = NoCall
    /\ NoSynth

CallReshape ==
    /\ fn.name = "reshape_list"
    /\ ~fn.done
    /\ fn' = [fn EXCEPT !.done = TRUE,
                        !.result = reshape_list(fn.args[1], fn.args[2])]
    /\ UNCHANGED <<patch, chains, output, output_envelope,
                   prev_output_env_parameters, output_with_envelope, call, hist>>

SpecReshape == InitReshape /\ [][CallReshape]_vars

----------------------------------------------------------------------------
\* SpecNewPatch: new_patch_algorithm as a pure function of algorithm

InitNewPatch ==
    /\ \E algorithm \in Algorithms :
           fn = [name |-> "new_patch_algorithm", args |-> algorithm,
                 done |-> FALSE, result |-> <<>>]
    /\ chains = <<>>
    /\ call = NoCall
    /\ NoSynth

CallNewPatch ==
    /\ fn.name = "new_patch_algorithm"
    /\ ~fn.done
    /\ fn' = [fn EXCEPT !.done = TRUE, !.result = new_patch_algorithm(fn.args)]
    /\ UNCHANGED <<patch, chains, output, output_envelope,
                   prev_output_env_parameters, output_with_envelope, call, hist>>

SpecNewPatch == InitNewPatch /\ [][CallNewPatch]_vars

----------------------------------------------------------------------------
\* SpecSynthInit: Synth.__init__ given a patch, well-formed or with one array
\* whose shape does not follow the algorithm (a patch file read by read_patch
\* or a dictionary built by hand).  Every array holds at least one chain.

MaxPatchChains == 2

PatchAlgorithms == Seqs(0..2, MaxPatchChains) \ {<<>>}

\* the value new_patch_algorithm gives the entries of a patch array
default_entry(name) ==
    CASE name \in {"freqs", "mod_indices"} -> One
      [] name = "envs" -> <<>>
      [] name = "feedback" -> 0

\* a patch array of the given shape: one list per entry of shape, of that length
shaped(name, shape) ==
    array([c \in 1..Len(shape) |-> repeat(default_entry(name), shape[c])])

PatchInputs ==
    UNION { {new_patch_algorithm(algorithm)}
            \cup {[new_patch_algorithm(algorithm) EXCEPT ![name] = shaped(name, shape)] :
                     name \in {"freqs", "mod_indices", "envs", "feedback"},
                     shape \in PatchAlgorithms}
            \cup {[new_patch_algorithm(algorithm) EXCEPT !.mod_0 = repeat(Zero, n)] :
                     n \in 1..(MaxPatchChains + 1)}
          : algorithm \in PatchAlgorithms }

InitSynthInit ==
    /\ \E p \in PatchInputs :
           fn = [name |-> "Synth", args |-> p, done |-> FALSE,
                 result |-> [err |-> "pending", n_chains |-> 0]]
    /\ chains = <<>>
    /\ call = NoCall
    /\ NoSynth

\* Synth(patch): the exception, or the number of chains of the new engine
ConstructSynth ==
    /\ fn.name = "Synth"
    /\ ~fn.done
    /\ \E S \in {Synth(fn.args)} :
           fn' = [fn EXCEPT !.done = TRUE,
                            !.result = [err |-> S.err,
                                        n_chains |-> IF S.err = "none"
                                                     THEN Len(S.chains) ELSE 0]]
    /\ UNCHANGED <<patch, chains, output, output_envelope,
                   prev_output_env_parameters, output_with_envelope, call, hist>>

SpecSynthInit == InitSynthInit /\ [][ConstructSynth]_vars

----------------------------------------------------------------------------
\* SpecOutputEnvelope: the output envelope of an engine of one chain of one
\* operator, set, disabled and restored with two valid parameter lists and
\* an invalid one

ToggleEnvChoices == {<<>>, EnvA, EnvB, EnvBad}

ToggleChainArgs ==
    {op_params_of(<<o>>) : o \in {<<One, One, <<>>, 0>>, <<Hz(1), One, EnvA, 0>>,
                                  <<Hz(1), One, <<>>, 1>>}}

InitOutputEnvelope ==
    \E e \in {<<>>, EnvA} :
        \E S \in {Synth([new_patch_algorithm(<<1>>) EXCEPT !.output_env = e])} :
        /\ S.err = "none"
        /\ patch = S.patch
        /\ chains = S.chains
        /\ output = S.output
        /\ output_envelope = S.output_envelope
        /\ prev_output_env_parameters = S.prev_output_env_parameters
        /\ output_with_envelope = S.output_with_envelope
        /\ call = [op |-> "__init__", chain |-> 0, args |-> <<>>,
                   err |-> "none", start |-> 0, computed |-> <<>>]
        /\ hist = Remember(NoRoundTrip, S.patch.output_env)
        /\ fn = NoFn

NextOutputEnvelope ==
    \/ \E vals \in ToggleEnvChoices : SetOutputEnvelope(vals)
    \/ SetOutputEnvelopeToPrev
    \/ \E op_params \in ToggleChainArgs : SetChainParams(1, op_params)

SpecOutputEnvelope == InitOutputEnvelope /\ [][NextOutputEnvelope]_vars

----------------------------------------------------------------------------
\* SpecOperator: one Operator and a read of its out property

MaxFb == 2     \* feedback count of the operator

OperatorFreqs == {Hz(0), Hz(1)}
OperatorModIndices == {Zero, Rat(1, 2), One}
OperatorEnvs == {<<>>, EnvA}
OperatorMods == {broadcast(Zero), broadcast(Rat(1, 2)), broadcast(One)}

InitOperator ==
    /\ \E freq \in OperatorFreqs, mod_idx \in OperatorModIndices,
          env \in OperatorEnvs, fb \in 0..MaxFb, mod \in OperatorMods :
           \E made \in {Operator(freq, mod_idx, env, fb, mod)} :
               /\ made.err = "none"
               /\ fn = [name |-> "Operator.out", args |-> made.op,
                        done |-> FALSE, result |-> made.op]
    /\ chains = <<>>
    /\ call = NoCall
    /\ NoSynth

ReadOut ==
    /\ fn.name = "Operator.out"
    /\ ~fn.done
    /\ fn' = [fn EXCEPT !.done = TRUE, !.result = update_out(fn.args)]
    /\ UNCHANGED <<patch, chains, output, output_envelope,
                   prev_output_env_parameters, output_with_envelope, call, hist>>

SpecOperator == InitOperator /\ [][ReadOut]_vars

----------------------------------------------------------------------------
\* SpecChainAnyLength: one OperatorChain and its set_new_op_params, called
\* with parameter lists of 1 to MaxArgLen entries, whatever the chain's length

ArgChainLen == 2     \* operators of the chain
MaxArgLen == 3       \* entries of each parameter list passed in a call

AnyLengthArgs == UNION {ChainArgsOf(k) : k \in 1..MaxArgLen}

InitChainAnyLength ==
    \E op_params \in ChainArgsOf(ArgChainLen) :
        \E made \in {OperatorChain(ArgChainLen, Zero, op_params)} :
            /\ made.err = "none"
            /\ chains = <<made.chain>>
            /\ call = [NoCall EXCEPT !.op = "OperatorChain", !.chain = 1,
                                     !.args = op_params,
                                     !.computed = made.computed]
            /\ NoSynth
            /\ fn = NoFn

NextChainAnyLength == \E op_params \in AnyLengthArgs : SetNewOpParams(op_params)

SpecChainAnyLength == InitChainAnyLength /\ [][NextChainAnyLength]_vars

----------------------------------------------------------------------------
\* Properties of the engine

\* C1: after every set_new_op_params call that returns, the chain's output is
\* the output of a chain newly constructed with the same mod_0 and the
\* parameters passed in the call (incremental = full recomputation).
C1_IncrementalEqualsFull ==
    (call.op = "set_new_op_params" /\ call.err = "none") =>
        /\ OperatorChain(chains[1].n_ops, chains[1].mod_0, call.args).err = "none"
        /\ chains[1].output =
               OperatorChain(chains[1].n_ops, chains[1].mod_0,
                             call.args).chain.output

\* a call that started in the middle of the chain and left a sounding output
C1_Witness ==
    /\ call.op = "set_new_op_params"
    /\ call.err = "none"
    /\ call.start = 2
    /\ chains[1].output # zeros(SizeT)

\* the first operator whose (freq, mod_index, env, feedback) in op_params
\* differs from the chain's stored values; 0 when all are equal
FirstDifference(ch, op_params) ==
    LET differs(i) ==
            <<op_params[1][i], op_params[2][i], op_params[3][i], op_params[4][i]>>
            # <<ch.freqs[i], ch.mod_indices[i], ch.envs[i], ch.feedback[i]>>
    IN  IF \A i \in 1..ch.n_ops : ~differs(i) THEN 0
        ELSE CHOOSE i \in 1..ch.n_ops :
                 differs(i) /\ \A k \in 1..(i - 1) : ~differs(k)

\* C2: a set_new_op_params call whose parameters first differ from the stored
\* ones at operator i computes no output for the operators before i and
\* leaves each of them (frequency, modulation index, envelope, feedback,
\* modulating input, output) as it was.
C2_PrefixUntouched ==
    [][ \A i \in 1..ChainLen :
          (call'.op = "set_new_op_params"
           /\ FirstDifference(chains[1], call'.args) = i)
          => \A j \in 1..(i - 1) :
                 /\ chains'[1].operators[j] = chains[1].operators[j]
                 /\ \A k \in 1..Len(call'.computed) : call'.computed[k] # j
      ]_vars

\* a call found its first difference at the second operator and recomputed
\* the second and the third only
C2_Witness ==
    /\ call.op = "set_new_op_params"
    /\ call.start = 2
    /\ call.computed = <<2, 3>>

\* C3: after construction and after every setter call that returns, the final
\* output is the elementwise product of the mixed output and the
\* output-envelope buffer.
C3_FinalIsProduct ==
    call.err = "none" =>
        output_with_envelope = multiply(output, output_envelope)

\* a chain was changed under an enabled envelope that shapes the final output
C3_Witness ==
    /\ call.op = "set_chain_params"
    /\ call.err = "none"
    /\ Len(patch.output_env) > 0
    /\ output_with_envelope # output

\* C4: when set_chain_params returns, the mixed output is addsyn of the
\* outputs the chains now hold.
C4_MixIsCurrent ==
    (call.op = "set_chain_params" /\ call.err = "none") =>
        output = addsyn(chain_outputs(chains))

\* the second chain was changed while the first still holds the parameters
\* of a call that raised, and the mix is a finite signal
C4_Witness ==
    /\ call.op = "set_chain_params"
    /\ call.err = "none"
    /\ call.chain = 2
    /\ chains[1].envs[1] = EnvBad
    /\ \A t \in 1..SizeT : ~IsSpecial(output[t])

\* the largest absolute sample value of a buffer of finite samples
MaxAbs(buf) == CHOOSE m \in {RAbs(buf[t]) : t \in 1..Len(buf)} :
                   \A t \in 1..Len(buf) : ~RLess(m, RAbs(buf[t]))

\* C5: for buffers whose sum is not all-zero, addsyn returns the sum divided
\* by its maximum absolute sample value, so the result peaks at exactly 1.
C5_NormalisedByMaxAbs ==
    (fn.name = "addsyn" /\ fn.done
     /\ \E t \in 1..WaveLen : np_sum(fn.args)[t] # Zero) =>
        /\ \A t \in 1..WaveLen :
               fn.result[t] = FDiv(np_sum(fn.args)[t], MaxAbs(np_sum(fn.args)))
        /\ \A t \in 1..WaveLen : ~IsSpecial(fn.result[t])
        /\ MaxAbs(fn.result) = One

\* C6: when the chain outputs sum to an all-zero buffer, the mixed output and
\* the final output are all-zero (no nan, no inf).
C6_SilenceStaysZero ==
    (call.err = "none" /\ np_sum(chain_outputs(chains)) = zeros(SizeT)) =>
        /\ output = zeros(SizeT)
        /\ output_with_envelope = zeros(SizeT)

\* s_level of the envelope call under test lies in [0, 1]
LevelInRange == ~RLess(One, fn.args[4]) /\ ~RLess(fn.args[4], Zero)

\* C7: for non-negative durations and s_level in [0, 1], envelope returns,
\* without raising, a buffer of exactly np.size(T) samples.
C7_EnvelopeHasBufferSize ==
    (fn.name = "envelope" /\ fn.done /\ LevelInRange) =>
        /\ fn.result.err = "none"
        /\ Len(fn.result.buf) = SizeT

\* C8: envelope with s_level outside [0, 1] raises ValueError and returns no
\* buffer, whatever the other four parameters.
C8_LevelOutOfRangeRaises ==
    (fn.name = "envelope" /\ fn.done /\ ~LevelInRange) =>
        fn.result = Raised("ValueError")

\* a call with a negative s_level and a long envelope has raised
C8_Witness ==
    /\ fn.name = "envelope"
    /\ fn.done
    /\ RLess(fn.args[4], Zero)
    /\ RLess(FromInt(SECONDS), RAdd(fn.args[1], fn.args[5]))
    /\ fn.result.err = "ValueError"

\* C9: once an envelope enabled with parameters p was disabled (any number of
\* times) and set_output_envelope_to_prev followed, patch["output_env"] is p
\* and the envelope buffer is envelope(*p).
C9_ToggleRestores ==
    hist.stage = "restored" =>
        /\ patch.output_env = hist.p
        /\ envelope_of(hist.p).err = "none"
        /\ output_envelope = envelope_of(hist.p).buf

\* a round trip has restored an envelope that is not the default patch's
C9_Witness ==
    /\ hist.stage = "restored"
    /\ hist.p # default_output_env
    /\ call.op = "set_output_envelope_to_prev"

\* C10: set_output_envelope([]) sets the envelope buffer to all ones and
\* leaves the remembered parameters unchanged.
C10_DisableKeepsRemembered ==
    [][ (call'.op = "set_output_envelope" /\ Len(call'.args) = 0) =>
            /\ call'.err = "none"
            /\ output_envelope' = ones(SizeT)
            /\ prev_output_env_parameters' = prev_output_env_parameters
      ]_vars

\* the envelope was disabled while already disabled, and the parameters
\* remembered are not the default patch's
C10_Witness ==
    /\ call.op = "set_output_envelope"
    /\ Len(call.args) = 0
    /\ hist.stage = "disabled_again"
    /\ prev_output_env_parameters # default_output_env
    /\ output_envelope = ones(SizeT)

\* the reshape_list call under test was given len(vals) = sum(algorithm)
Compatible == Len(fn.args[1]) = sum(fn.args[2])

\* the groups of a reshaped list, concatenated in order
RECURSIVE Flatten(_)
Flatten(groups) ==
    IF Len(groups) = 0 THEN <<>>
    ELSE groups[1].items \o Flatten(Drop(groups, 1))

C18_MismatchRaises ==
    (fn.name = "reshape_list" /\ fn.done /\ ~Compatible) =>
        fn.result = [err |-> "ValueError", val |-> <<>>]

\* a vals longer than sum(algorithm) was rejected
C18_Witness ==
    /\ fn.name = "reshape_list"
    /\ fn.done
    /\ Len(fn.args[1]) > sum(fn.args[2])
    /\ sum(fn.args[2]) > 0
    /\ fn.result.err = "ValueError"

\* the position in vals (counted from 1) of the first value of group i
Offset(algorithm, i) == sum(Take(algorithm, i - 1)) + 1

Consistent(p) ==
    /\ Len(p.mod_0) = Len(p.algorithm)
    /\ \A name \in {"freqs", "mod_indices", "envs", "feedback"} :
           /\ Len(p[name]) = Len(p.algorithm)
           /\ \A c \in 1..Len(p.algorithm) : Len(p[name][c]) = p.algorithm[c]

\* C12: Synth(patch) raises whenever the patch arrays are inconsistent with
\* patch["algorithm"], and a constructed Synth has len(algorithm) chains.
C12_InconsistentPatchRaises ==
    (fn.name = "Synth" /\ fn.done) =>
        /\ ~Consistent(fn.args) => fn.result.err # "none"
        /\ fn.result.err = "none" => fn.result.n_chains = Len(fn.args.algorithm)

\* C13: a chain of 0 operators fails with ValueError, so a Synth whose
\* algorithm contains a 0 entry fails to construct.
C13_ZeroOperatorsRaises ==
    (fn.name = "Synth" /\ fn.done
     /\ \E c \in 1..Len(fn.args.algorithm) : fn.args.algorithm[c] = 0) =>
        fn.result.err = "ValueError"

\* the engine's fields in the next state
EngineNext == [patch |-> patch', chains |-> chains', output |-> output',
               output_envelope |-> output_envelope',
               prev_output_env_parameters |-> prev_output_env_parameters',
               output_with_envelope |-> output_with_envelope']

\* C11: set_output_envelope(params) with valid non-empty params, from the
\* enabled and from the disabled state, returns and leaves the engine enabled
\* with params: patch["output_env"] is params, the envelope buffer is
\* envelope(*params) and the remembered parameters are params (the state from
\* which a disable / re-enable round trip restores params).
C11_SetEnablesAndRemembers ==
    [][ (call'.op = "set_output_envelope" /\ Len(call'.args) > 0
         /\ envelope_of(call'.args).err = "none") =>
            /\ call'.err = "none"
            /\ EnabledWith(EngineNext, call'.args)
            /\ has_output_envelope(EngineNext)
            /\ prev_output_env_parameters' = call'.args
            /\ output_with_envelope' =
                   multiply(envelope_of(call'.args).buf, output)
      ]_vars

\* EnvB was set over another remembered envelope, then disabled and restored
C11_Witness ==
    /\ hist.stage = "restored"
    /\ hist.p = EnvB
    /\ patch.output_env = EnvB
    /\ prev_output_env_parameters = EnvB
    /\ output_envelope = envelope_of(EnvB).buf

\* C14: a set_output_envelope call whose s_level is outside [0, 1] raises and
\* changes nothing: patch["output_env"], has_output_envelope(),
\* get_envelope_patch_param(), the remembered parameters, the envelope buffer
\* and the final output are as before the call.
C14_RejectedEnvelopeChangesNothing ==
    [][ (call'.op = "set_output_envelope" /\ Len(call'.args) > 0
         /\ (RLess(One, call'.args[4]) \/ RLess(call'.args[4], Zero))) =>
            /\ call'.err = "ValueError"
            /\ patch'.output_env = patch.output_env
            /\ has_output_envelope(EngineNext) = has_output_envelope(Engine)
            /\ get_envelope_patch_param(EngineNext) = get_envelope_patch_param(Engine)
            /\ prev_output_env_parameters' = prev_output_env_parameters
            /\ output_envelope' = output_envelope
            /\ output_with_envelope' = output_with_envelope
      ]_vars

\* some operator's envelope in op_params has s_level outside [0, 1]
HasBadEnvelope(op_params) ==
    \E i \in 1..Len(op_params[3]) :
        /\ Len(op_params[3][i]) > 0
        /\ (RLess(One, op_params[3][i][4]) \/ RLess(op_params[3][i][4], Zero))

\* C15: a set_chain_params call in which some operator's envelope has s_level
\* outside [0, 1] raises and changes nothing: the chain (stored lists,
\* operators, output), the patch and the mixed output are as before the call.
C15_RejectedChainParamsChangeNothing ==
    [][ (call'.op = "set_chain_params" /\ HasBadEnvelope(call'.args)) =>
            /\ call'.err = "ValueError"
            /\ chains' = chains
            /\ patch' = patch
            /\ output' = output
      ]_vars

\* the patch and chain c's stored parameter lists agree
Agree(S, c) ==
    /\ S.patch.freqs[c] = S.chains[c].freqs
    /\ S.patch.mod_indices[c] = S.chains[c].mod_indices
    /\ S.patch.envs[c] = S.chains[c].envs
    /\ S.patch.feedback[c] = S.chains[c].feedback

\* C16: after every set_chain_params(op_params, c) call that returns, the
\* patch entries of chain c are the values passed in and equal chain c's
\* stored lists; the patch and the stored lists agree for every chain after
\* construction, and a setter call that returns keeps them in agreement.
C16_PatchFollowsChains ==
    /\ [](call.op = "__init__" => \A c \in 1..Len(chains) : Agree(Engine, c))
    /\ [][ /\ (call'.op = "set_chain_params" /\ call'.err = "none") =>
                 /\ <<patch'.freqs[call'.chain], patch'.mod_indices[call'.chain],
                      patch'.envs[call'.chain], patch'.feedback[call'.chain]>>
                        = call'.args
                 /\ Agree(EngineNext, call'.chain)
           /\ ((\A c \in 1..Len(chains) : Agree(Engine, c)) /\ call'.err = "none")
                 => \A c \in 1..Len(chains') : Agree(EngineNext, c)
         ]_vars

\* a call on the first chain that changed its first operator's envelope has
\* returned, after an earlier call on that chain had rebound the patch entries
C16_Witness ==
    /\ call.op = "set_chain_params"
    /\ call.err = "none"
    /\ call.chain = 1
    /\ call.start = 1
    /\ ~chains[1].shares_patch
    /\ patch.envs[1][1] = EnvA
    /\ \A c \in 1..Len(chains) : Agree(Engine, c)

\* the smallest operator among the first n_ops - 1 whose (freq, mod_index,
\* env, feedback) in op_params differs from the stored one; n_ops when none
SmallestChanged(ch, op_params) ==
    LET changed == {i \in 1..(ch.n_ops - 1) :
                       \/ op_params[1][i] # ch.freqs[i]
                       \/ op_params[2][i] # ch.mod_indices[i]
                       \/ op_params[3][i] # ch.envs[i]
                       \/ op_params[4][i] # ch.feedback[i]}
    IN  IF changed = {} THEN ch.n_ops
        ELSE CHOOSE i \in changed : \A k \in changed : i <= k

\* C21: the start index of a set_new_op_params call is the smallest operator
\* among all but the last whose parameter tuple differs from the stored one,
\* and the last operator when there is none; so a call with the stored
\* parameters still recomputes the last operator, and a chain of one
\* operator always recomputes it.
C21_StartIsSmallestChanged ==
    [][ call'.op = "set_new_op_params" =>
          /\ call'.start = SmallestChanged(chains[1], call'.args)
          /\ (FirstDifference(chains[1], call'.args) = 0 =>
                 call'.computed = <<chains[1].n_ops>>)
          /\ (chains[1].n_ops = 1 =>
                 call'.start = 1 /\ call'.computed = <<1>>)
      ]_vars

\* a chain of three operators was called with the parameters it already
\* stored and recomputed its last operator only
C21_Witness ==
    /\ call.op = "set_new_op_params"
    /\ chains[1].n_ops = 3
    /\ call.args = <<chains[1].freqs, chains[1].mod_indices, chains[1].envs,
                     chains[1].feedback>>
    /\ call.start = 3
    /\ call.computed = <<3>>

\* C22: a set_new_op_params call that returns with start index s computes
\* the output of each operator from s to the last exactly once, in order,
\* each operator after s reading the output just computed for its
\* predecessor, and of no operator before s; constructing a chain computes
\* the output of every operator exactly once, in order.
C22_OneComputationEach ==
    /\ (call.op = "set_new_op_params" /\ call.err = "none") =>
          /\ call.computed =
                 [k \in 1..(chains[1].n_ops - call.start + 1) |->
                     call.start + k - 1]
          /\ \A j \in (call.start + 1)..chains[1].n_ops :
                 chains[1].operators[j].mod = chains[1].operators[j - 1].out
          /\ chains[1].output = chains[1].operators[chains[1].n_ops].out
    /\ call.op = "OperatorChain" =>
          /\ call.computed = [k \in 1..chains[1].n_ops |-> k]
          /\ \A j \in 2..chains[1].n_ops :
                 chains[1].operators[j].mod = chains[1].operators[j - 1].out

\* a call started at the first of three operators and computed all three
C22_Witness ==
    /\ call.op = "set_new_op_params"
    /\ call.err = "none"
    /\ call.start = 1
    /\ call.computed = <<1, 2, 3>>
    /\ chains[1].operators[3].mod = chains[1].operators[2].out

\* m <- env * sin(phase + mod_idx * m), applied n times to the operator's
\* modulating input
RECURSIVE Updates(_, _)
Updates(op, n) ==
    IF n = 0 THEN op.mod
    ELSE LET m == Updates(op, n - 1)
         IN  [t \in 1..SizeT |->
                 RMul(op.env[t],
                      sin(RAdd(phase(op.freq, t), RMul(op.mod_idx, m[t]))))]

\* C23: the output of an operator with feedback count k is the result of
\* applying m <- env * sin(phase + mod_idx * m) exactly k + 1 times to its
\* modulating input (once, directly on the input, when k = 0), and
\* computing the output leaves the stored modulating input as it was.
C23_FeedbackAppliesKPlusOne ==
    (fn.name = "Operator.out" /\ fn.done) =>
        /\ fn.result.out = Updates(fn.args, fn.args.fb + 1)
        /\ fn.result.mod = fn.args.mod
        /\ [fn.result EXCEPT !.out = fn.args.out] = fn.args

\* an operator with feedback 2 whose output differs from what one, two or
\* four applications give
C23_Witness ==
    /\ fn.name = "Operator.out"
    /\ fn.done
    /\ fn.args.fb = 2
    /\ \A n \in {0, 1, 2, 4} : fn.result.out # Updates(fn.args, n)

\* attack | decay | sustain | release of the envelope call under test, each
\* segment of ceil(x * FS) samples, before it is fitted to the buffer
Concatenation ==
    LET s_level == fn.args[4]
        count(x) == RCeil(RMul(x, FromInt(FS)))
        attack == linspace(Zero, One, count(fn.args[1]))
        fall == linspace(Zero, RSub(One, s_level), count(fn.args[2]))
        decay == [i \in 1..Len(fall) |-> RSub(One, fall[i])]
        sustain == [i \in 1..count(fn.args[3]) |-> s_level]
        ramp == linspace(One, Zero, count(fn.args[5]))
        release == [i \in 1..Len(ramp) |-> RMul(s_level, ramp[i])]
    IN  attack \o decay \o sustain \o release

\* C24: with L the length of attack | decay | sustain | release and N the
\* buffer length, envelope's result equals the concatenation on its first
\* min(L, N) samples and is 0 from sample L to the end: a longer envelope is
\* cut off, a shorter one padded with zeros.
C24_TruncatedOrPadded ==
    (fn.name = "envelope" /\ fn.done /\ LevelInRange) =>
        /\ fn.result.err = "none"
        /\ Len(fn.result.buf) = SizeT
        /\ \A t \in 1..Min(Len(Concatenation), SizeT) :
               fn.result.buf[t] = Concatenation[t]
        /\ \A t \in (Len(Concatenation) + 1)..SizeT : fn.result.buf[t] = Zero

\* C25: after every set_new_op_params call that returns, whatever the length
\* of the lists passed, the chain's freqs, mod_indices, envs and feedback
\* have exactly n_ops entries and the chain's output is the output of its
\* last operator.
C25_ListsKeepLength ==
    (call.op = "set_new_op_params" /\ call.err = "none") =>
        /\ Len(chains[1].freqs) = chains[1].n_ops
        /\ Len(chains[1].mod_indices) = chains[1].n_ops
        /\ Len(chains[1].envs) = chains[1].n_ops
        /\ Len(chains[1].feedback) = chains[1].n_ops
        /\ chains[1].output = chains[1].operators[chains[1].n_ops].out

\* C26: when a set_chain_params call has raised on an invalid envelope and
\* the next call on the same chain, with valid parameters, returns, the
\* chain's output is the output of a chain newly constructed with that
\* call's parameters, and the mixed output is the mix of the chain outputs.
C26_FreshAfterFailure ==
    [][ (/\ call.op = "set_chain_params"
         /\ call.err # "none"
         /\ call'.op = "set_chain_params"
         /\ call'.chain = call.chain
         /\ call'.err = "none"
         /\ ~HasBadEnvelope(call'.args))
        => /\ chains'[call'.chain].output =
                  OperatorChain(chains[call.chain].n_ops,
                                chains[call.chain].mod_0,
                                call'.args).chain.output
           /\ output' = addsyn(chain_outputs(chains'))
      ]_vars

\* the patch entries of chain c
PatchEntries(p, c) ==
    <<p.algorithm[c], p.freqs[c], p.mod_indices[c], p.envs[c], p.feedback[c],
      p.mod_0[c]>>

\* C27: a set_chain_params call on chain c, returning or raising, leaves
\* every other chain (operators, stored parameters, output) and its patch
\* entries as they were, and leaves the output-envelope buffer,
\* patch["output_env"] and the remembered parameters as they were;
\* set_output_envelope and set_output_envelope_to_prev leave every chain and
\* the mixed output as they were.
C27_SettersLeaveTheRest ==
    [][ /\ call'.op = "set_chain_params" =>
              /\ Len(chains') = Len(chains)
              /\ \A c \in 1..Len(chains) :
                     c # call'.chain =>
                         /\ chains'[c] = chains[c]
                         /\ PatchEntries(patch', c) = PatchEntries(patch, c)
              /\ output_envelope' = output_envelope
              /\ patch'.output_env = patch.output_env
              /\ prev_output_env_parameters' = prev_output_env_parameters
        /\ call'.op \in {"set_output_envelope", "set_output_envelope_to_prev"} =>
              /\ chains' = chains
              /\ output' = output
              /\ \A c \in 1..Len(chains) :
                     PatchEntries(patch', c) = PatchEntries(patch, c)
      ]_vars

\* a call on the second chain has given its operator an envelope while the
\* first chain sounds and the output envelope is enabled
C27_Witness ==
    /\ call.op = "set_chain_params"
    /\ call.err = "none"
    /\ call.chain = 2
    /\ chains[2].envs = <<EnvA>>
    /\ chains[1].output # zeros(SizeT)
    /\ EnabledWith(Engine, EnvA)

\* C28: get_envelope_patch_param returns the parameters of the output
\* envelope in effect when has_output_envelope() is true, and otherwise the
\* parameters of the most recently enabled envelope; for an engine
\* constructed without an output envelope and never enabled since, it
\* returns the default patch's output_env, and set_output_envelope_to_prev
\* then enables exactly that envelope.
C28_ReturnsCurrentOrLastEnabled ==
    /\ [](call.op # "none" =>
            /\ has_output_envelope(Engine) =>
                   EnabledWith(Engine, get_envelope_patch_param(Engine))
            /\ ~has_output_envelope(Engine) =>
                   get_envelope_patch_param(Engine) =
                       IF hist.last = <<>> THEN default_output_env
                       ELSE hist.last)
    /\ [][ (/\ call'.op = "set_output_envelope_to_prev"
             /\ ~has_output_envelope(Engine)
             /\ hist.last = <<>>)
            => /\ call'.err = "none"
               /\ get_envelope_patch_param(Engine) = default_output_env
               /\ EnabledWith(EngineNext, default_output_env)
          ]_vars

====
